---- MODULE Spec2Model ----
(***************************************************************************)
(* Model of src/taskScheduler.py: class TaskScheduler, a dict              *)
(* (task_metadata) from task_id to a metadata dict, with the three methods *)
(* add_task_metadata, find_task_metadata and complete_task_metadata.       *)
(*                                                                         *)
(* Python dicts are objects: task_metadata maps a task_id to a reference,  *)
(* and objs is the heap of the metadata dicts those references point to.   *)
(* find_task_metadata returns the reference itself, so the caller's hold   *)
(* on it (held) is part of the state.                                      *)
(*                                                                         *)
(* Spec      : one caller, every method call runs to completion.           *)
(* SpecConc  : several threads, each method call split at the points where *)
(*             another thread can run (between the membership test and the *)
(*             statement that relies on it).                               *)
(***************************************************************************)
EXTENDS Integers, Sequences, FiniteSets, TLC

VARIABLES
    task_metadata,  \* self.task_metadata: function task_id -> reference
    objs,           \* heap: reference -> metadata dict
    held,           \* references the sequential caller still holds (from find)
    history,        \* sequential caller: the calls made so far, with results
    pc,             \* per thread: the statement it is about to execute
    cur,            \* per thread: the call in progress / last made
    ret,            \* per thread: result of its last finished call
    ncalls,         \* per thread: calls started
    dispatched      \* results of the dispatch calls made after the threads

vars == <<task_metadata, objs, held, history, pc, cur, ret, ncalls, dispatched>>

seqVars == <<task_metadata, objs, held, history>>
concVars == <<pc, cur, ret, ncalls, dispatched>>

-----------------------------------------------------------------------------
(* Bounds and input sets *)

MaxCalls == 3
NumThreads == 2
CallsPerThread == 2

TaskIds == {"a", "b"}
Deadlines == {-1, 1}
Urgencies == {-1, 1}
Descriptions == {"", "x"}
\* the (deadline, urgency, description) arguments the threads choose from
ThreadArgs == {<<-1, 1, "">>, <<1, -1, "x">>}

Threads == 1..NumThreads
\* one reference per task_id, plus one a caller may still hold
Addr == 1..(Cardinality(TaskIds) + 1)

-----------------------------------------------------------------------------
(* Values *)

\* a Python str result, kept as the pieces of the f-string
Str(prefix, task_id, suffix) == [type |-> "str", text |-> <<prefix, task_id, suffix>>]
\* a returned metadata dict: the reference, and its content when returned
DictRef(a, content) == [type |-> "dict", ref |-> a, value |-> content]
\* an exception propagating out of the call
Raise(exc, what) == [type |-> "raise", exc |-> exc, what |-> what]
NoResult == [type |-> "none"]

AddedMsg(task_id) == Str("Metadata added for Task ID: ", task_id, "")
ExistsMsg(task_id) == Str("Error: Task ID '", task_id, "' already exists.")
NotFoundMsg(task_id) == Str("Error: Task ID '", task_id, "' not found.")
DeletedMsg(task_id) == Str("Metadata deleted for Task ID: ", task_id, "")

NewRecord_swapped(deadline, urgency, description) ==
    [deadline |-> urgency, urgency |-> deadline, description |-> description]

\* the dict literal of add_task_metadata
NewRecord(deadline, urgency, description) ==
    [deadline |-> deadline, urgency |-> urgency, description |-> description]

-----------------------------------------------------------------------------
(* The dict and the heap *)

Range(f) == {f[x] : x \in DOMAIN f}

\* task_id in self.task_metadata
Contains(tm, task_id) == task_id \in DOMAIN tm

\* references reachable from the dict or from the caller
Live(tm, h) == Range(tm) \cup h

\* the heap with unreachable dicts collected
Collect(ob, tm, h) == [a \in (DOMAIN ob) \cap Live(tm, h) |-> ob[a]]

\* a fresh reference for a new dict object
Alloc(tm, h) == CHOOSE a \in Addr \ Live(tm, h) : \A b \in Addr \ Live(tm, h) : a <= b

SetItem_only(tm, task_id, a) == [x \in {task_id} |-> a]

\* self.task_metadata[task_id] = <reference a>
SetItem(tm, task_id, a) ==
    [x \in (DOMAIN tm) \cup {task_id} |-> IF x = task_id THEN a ELSE tm[x]]

DelItem_keep(tm, task_id) == tm

\* del self.task_metadata[task_id]   (task_id present)
DelItem(tm, task_id) == [x \in (DOMAIN tm) \ {task_id} |-> tm[x]]

\* the heap after a new dict with this content is created at a
NewObj(ob, a, content) ==
    [x \in (DOMAIN ob) \cup {a} |-> IF x = a THEN content ELSE ob[x]]

\* the metadata stored for task_id (task_id present)
Stored(task_id) == objs[task_metadata[task_id]]

\* the Priority Structure: __init__ creates none ("# self.min_heap = []" is a
\* comment) and no method writes one, so it never holds a Priority Entry
min_heap == << >>

-----------------------------------------------------------------------------
(* Return values of the three methods, as functions of the state *)

AddResult_always(tm, task_id) == AddedMsg(task_id)

AddResult(tm, task_id) ==
    IF Contains(tm, task_id) THEN ExistsMsg(task_id) ELSE AddedMsg(task_id)

FindResult(tm, ob, task_id) ==
    IF Contains(tm, task_id)
    THEN DictRef(tm[task_id], ob[tm[task_id]])
    ELSE NotFoundMsg(task_id)

CompleteResult_always(tm, task_id) == DeletedMsg(task_id)

CompleteResult(tm, task_id) ==
    IF Contains(tm, task_id) THEN DeletedMsg(task_id) ELSE NotFoundMsg(task_id)

-----------------------------------------------------------------------------
(* Sequential caller: each call is one step *)

Init ==
    /\ task_metadata = << >>
    /\ objs = << >>
    /\ held = {}
    /\ history = << >>
    /\ pc = [th \in Threads |-> "idle"]
    /\ cur = [th \in Threads |-> [op |-> "none"]]
    /\ ret = [th \in Threads |-> NoResult]
    /\ ncalls = [th \in Threads |-> 0]
    /\ dispatched = << >>

add_task_metadata_validating(task_id, deadline, urgency, description) ==
    /\ Len(history) < MaxCalls
    /\ LET ok == ~Contains(task_metadata, task_id) /\ deadline >= 0 /\ urgency >= 0
           res == IF ok THEN AddedMsg(task_id) ELSE ExistsMsg(task_id)
           a == Alloc(task_metadata, held)
           tm == IF ok THEN SetItem(task_metadata, task_id, a) ELSE task_metadata
           ob == IF ok
                 THEN NewObj(objs, a, NewRecord(deadline, urgency, description))
                 ELSE objs
       IN /\ task_metadata' = tm
          /\ objs' = Collect(ob, tm, held)
          /\ history' = Append(history,
                [op |-> "add", task_id |-> task_id, deadline |-> deadline,
                 urgency |-> urgency, description |-> description, result |-> res])
    /\ UNCHANGED <<held, concVars>>

add_task_metadata(task_id, deadline, urgency, description) ==
    /\ Len(history) < MaxCalls
    /\ LET res == AddResult(task_metadata, task_id)
           a == Alloc(task_metadata, held)
           tm == IF res = AddedMsg(task_id)
                 THEN SetItem(task_metadata, task_id, a)
                 ELSE task_metadata
           ob == IF res = AddedMsg(task_id)
                 THEN NewObj(objs, a, NewRecord(deadline, urgency, description))
                 ELSE objs
       IN /\ task_metadata' = tm
          /\ objs' = Collect(ob, tm, held)
          /\ history' = Append(history,
                [op |-> "add", task_id |-> task_id, deadline |-> deadline,
                 urgency |-> urgency, description |-> description, result |-> res])
    /\ UNCHANGED <<held, concVars>>

find_task_metadata_pop(task_id) ==
    /\ Len(history) < MaxCalls
    /\ LET res == FindResult(task_metadata, objs, task_id)
           h == IF res.type = "dict" THEN {res.ref} ELSE {}
           tm == DelItem(task_metadata, task_id)
       IN /\ held' = h
          /\ task_metadata' = tm
          /\ objs' = Collect(objs, tm, h)
          /\ history' = Append(history,
                [op |-> "find", task_id |-> task_id, result |-> res])
    /\ UNCHANGED concVars

find_task_metadata(task_id) ==
    /\ Len(history) < MaxCalls
    /\ LET res == FindResult(task_metadata, objs, task_id)
           h == IF res.type = "dict" THEN {res.ref} ELSE {}
       IN /\ held' = h
          /\ objs' = Collect(objs, task_metadata, h)
          /\ history' = Append(history,
                [op |-> "find", task_id |-> task_id, result |-> res])
    /\ UNCHANGED <<task_metadata, concVars>>

complete_task_metadata(task_id) ==
    /\ Len(history) < MaxCalls
    /\ LET res == CompleteResult(task_metadata, task_id)
           tm == IF res = DeletedMsg(task_id)
                 THEN DelItem(task_metadata, task_id)
                 ELSE task_metadata
       IN /\ task_metadata' = tm
          /\ objs' = Collect(objs, tm, held)
          /\ history' = Append(history,
                [op |-> "complete", task_id |-> task_id, result |-> res])
    /\ UNCHANGED <<held, concVars>>

\* the class defines no dispatch method: the call raises AttributeError
dispatch ==
    /\ Len(history) < MaxCalls
    /\ history' = Append(history,
            [op |-> "dispatch", result |-> Raise("AttributeError", "dispatch")])
    /\ UNCHANGED <<task_metadata, objs, held, concVars>>

\* the class defines no next method: the call raises AttributeError
next ==
    /\ Len(history) < MaxCalls
    /\ history' = Append(history,
            [op |-> "next", result |-> Raise("AttributeError", "next")])
    /\ UNCHANGED <<task_metadata, objs, held, concVars>>

\* the caller assigns to a key of the dict find_task_metadata returned
CallerSetItem(key, value) ==
    /\ \E a \in held :
          /\ objs[a][key] # value
          /\ objs' = [objs EXCEPT ![a][key] = value]
    /\ UNCHANGED <<task_metadata, held, history, concVars>>

Next ==
    \/ \E t \in TaskIds, d \in Deadlines, u \in Urgencies, s \in Descriptions :
          add_task_metadata(t, d, u, s)
    \/ \E t \in TaskIds : find_task_metadata(t)
    \/ \E t \in TaskIds : complete_task_metadata(t)
    \/ dispatch
    \/ next
    \/ \E v \in Deadlines : CallerSetItem("deadline", v)
    \/ \E v \in Urgencies : CallerSetItem("urgency", v)
    \/ \E v \in Descriptions : CallerSetItem("description", v)

Spec == Init /\ [][Next]_vars

-----------------------------------------------------------------------------
(* Concurrent callers: a thread runs one statement per step *)

Joined == \A th \in Threads : pc[th] \in {"joined", "raised"}

\* a thread calls add_task_metadata(task_id, deadline, urgency, description)
CallAdd(th, task_id, deadline, urgency, description) ==
    /\ pc[th] = "idle"
    /\ ncalls[th] < CallsPerThread
    /\ cur' = [cur EXCEPT ![th] =
                [op |-> "add", task_id |-> task_id, deadline |-> deadline,
                 urgency |-> urgency, description |-> description]]
    /\ pc' = [pc EXCEPT ![th] = "add_check"]
    /\ ncalls' = [ncalls EXCEPT ![th] = @ + 1]
    /\ UNCHANGED <<seqVars, ret, dispatched>>

\* a thread calls find_task_metadata(task_id)
CallFind(th, task_id) ==
    /\ pc[th] = "idle"
    /\ ncalls[th] < CallsPerThread
    /\ cur' = [cur EXCEPT ![th] = [op |-> "find", task_id |-> task_id]]
    /\ pc' = [pc EXCEPT ![th] = "find_check"]
    /\ ncalls' = [ncalls EXCEPT ![th] = @ + 1]
    /\ UNCHANGED <<seqVars, ret, dispatched>>

\* a thread calls complete_task_metadata(task_id)
CallComplete(th, task_id) ==
    /\ pc[th] = "idle"
    /\ ncalls[th] < CallsPerThread
    /\ cur' = [cur EXCEPT ![th] = [op |-> "complete", task_id |-> task_id]]
    /\ pc' = [pc EXCEPT ![th] = "complete_check"]
    /\ ncalls' = [ncalls EXCEPT ![th] = @ + 1]
    /\ UNCHANGED <<seqVars, ret, dispatched>>

\* if task_id in self.task_metadata: return "Error: ... already exists."
AddCheck(th) ==
    /\ pc[th] = "add_check"
    /\ IF Contains(task_metadata, cur[th].task_id)
       THEN /\ ret' = [ret EXCEPT ![th] = ExistsMsg(cur[th].task_id)]
            /\ pc' = [pc EXCEPT ![th] = "idle"]
       ELSE /\ pc' = [pc EXCEPT ![th] = "add_store"]
            /\ UNCHANGED ret
    /\ UNCHANGED <<seqVars, cur, ncalls, dispatched>>

\* self.task_metadata[task_id] = {...}; return "Metadata added ..."
AddStore(th) ==
    /\ pc[th] = "add_store"
    /\ LET c == cur[th]
           a == Alloc(task_metadata, {})
           tm == SetItem(task_metadata, c.task_id, a)
           ob == NewObj(objs, a, NewRecord(c.deadline, c.urgency, c.description))
       IN /\ task_metadata' = tm
          /\ objs' = Collect(ob, tm, {})
    /\ ret' = [ret EXCEPT ![th] = AddedMsg(cur[th].task_id)]
    /\ pc' = [pc EXCEPT ![th] = "idle"]
    /\ UNCHANGED <<held, history, cur, ncalls, dispatched>>

\* if task_id in self.task_metadata: ... else: return "Error: ... not found."
FindCheck(th) ==
    /\ pc[th] = "find_check"
    /\ IF Contains(task_metadata, cur[th].task_id)
       THEN /\ pc' = [pc EXCEPT ![th] = "find_read"]
            /\ UNCHANGED ret
       ELSE /\ ret' = [ret EXCEPT ![th] = NotFoundMsg(cur[th].task_id)]
            /\ pc' = [pc EXCEPT ![th] = "idle"]
    /\ UNCHANGED <<seqVars, cur, ncalls, dispatched>>

\* return self.task_metadata[task_id]   (KeyError when the key is gone)
FindRead(th) ==
    /\ pc[th] = "find_read"
    /\ LET t == cur[th].task_id
       IN IF Contains(task_metadata, t)
          THEN /\ ret' = [ret EXCEPT ![th] = DictRef(task_metadata[t], Stored(t))]
               /\ pc' = [pc EXCEPT ![th] = "idle"]
          ELSE /\ ret' = [ret EXCEPT ![th] = Raise("KeyError", t)]
               /\ pc' = [pc EXCEPT ![th] = "raised"]
    /\ UNCHANGED <<seqVars, cur, ncalls, dispatched>>

\* if task_id in self.task_metadata: ... else: return "Error: ... not found."
CompleteCheck(th) ==
    /\ pc[th] = "complete_check"
    /\ IF Contains(task_metadata, cur[th].task_id)
       THEN /\ pc' = [pc EXCEPT ![th] = "complete_del"]
            /\ UNCHANGED ret
       ELSE /\ ret' = [ret EXCEPT ![th] = NotFoundMsg(cur[th].task_id)]
            /\ pc' = [pc EXCEPT ![th] = "idle"]
    /\ UNCHANGED <<seqVars, cur, ncalls, dispatched>>

\* del self.task_metadata[task_id]   (KeyError when the key is gone);
\* return "Metadata deleted ..."
CompleteDel(th) ==
    /\ pc[th] = "complete_del"
    /\ LET t == cur[th].task_id
       IN IF Contains(task_metadata, t)
          THEN /\ task_metadata' = DelItem(task_metadata, t)
               /\ objs' = Collect(objs, DelItem(task_metadata, t), {})
               /\ ret' = [ret EXCEPT ![th] = DeletedMsg(t)]
               /\ pc' = [pc EXCEPT ![th] = "idle"]
          ELSE /\ ret' = [ret EXCEPT ![th] = Raise("KeyError", t)]
               /\ pc' = [pc EXCEPT ![th] = "raised"]
               /\ UNCHANGED <<task_metadata, objs>>
    /\ UNCHANGED <<held, history, cur, ncalls, dispatched>>

\* the thread's function returns
Join(th) ==
    /\ pc[th] = "idle"
    /\ pc' = [pc EXCEPT ![th] = "joined"]
    /\ UNCHANGED <<seqVars, cur, ret, ncalls, dispatched>>

\* after the threads: one of the sequential dispatch calls (no such method)
DispatchAfter ==
    /\ Joined
    /\ Len(dispatched) < NumThreads
    /\ dispatched' = Append(dispatched, Raise("AttributeError", "dispatch"))
    /\ UNCHANGED <<seqVars, pc, cur, ret, ncalls>>

NextConc ==
    \/ \E th \in Threads, t \in TaskIds, x \in ThreadArgs :
          CallAdd(th, t, x[1], x[2], x[3])
    \/ \E th \in Threads, t \in TaskIds : CallFind(th, t)
    \/ \E th \in Threads, t \in TaskIds : CallComplete(th, t)
    \/ \E th \in Threads : AddCheck(th)
    \/ \E th \in Threads : AddStore(th)
    \/ \E th \in Threads : FindCheck(th)
    \/ \E th \in Threads : FindRead(th)
    \/ \E th \in Threads : CompleteCheck(th)
    \/ \E th \in Threads : CompleteDel(th)
    \/ \E th \in Threads : Join(th)
    \/ DispatchAfter

SpecConc == Init /\ [][NextConc]_vars

-----------------------------------------------------------------------------
(* Properties of the sequential caller (Spec) *)

Last(h) == h[Len(h)]

\* this step is a call of op on task_id by the sequential caller
IsCall(op, task_id) ==
    /\ Len(history') = Len(history) + 1
    /\ Last(history').op = op
    /\ Last(history').task_id = task_id

IsStr(r, msg) == r.type = "str" /\ r = msg

\* h holds only add calls, with pairwise distinct task_ids
OnlyDistinctSubmits(h) ==
    /\ \A i \in 1..Len(h) : h[i].op = "add"
    /\ \A i, j \in 1..Len(h) : i # j => h[i].task_id # h[j].task_id

\* the metadata supplied in the add call c
Supplied(c) ==
    [deadline |-> c.deadline, urgency |-> c.urgency, description |-> c.description]

\* index and stored metadata are the same before and after the step
IndexUnchanged ==
    /\ DOMAIN task_metadata' = DOMAIN task_metadata
    /\ \A t \in DOMAIN task_metadata : Stored(t)' = Stored(t)

\* C1: after any sequence of add calls with pairwise distinct task_ids,
\* find_task_metadata of every submitted task_id returns the dict holding
\* exactly the deadline, urgency and description supplied for it; a find call
\* made right after such a sequence returns that dict.
C1_SubmittedRetrievable ==
    /\ OnlyDistinctSubmits(history) =>
          \A i \in 1..Len(history) :
              LET r == FindResult(task_metadata, objs, history[i].task_id)
              IN r.type = "dict" /\ r.value = Supplied(history[i])
    /\ (/\ Len(history) >= 2
        /\ Last(history).op = "find"
        /\ OnlyDistinctSubmits(SubSeq(history, 1, Len(history) - 1))) =>
          \A i \in 1..(Len(history) - 1) :
              history[i].task_id = Last(history).task_id =>
                  /\ Last(history).result.type = "dict"
                  /\ Last(history).result.value = Supplied(history[i])

\* two distinct ids submitted with different metadata, then one inspected
C1_Witness ==
    /\ Len(history) = 3
    /\ OnlyDistinctSubmits(SubSeq(history, 1, 2))
    /\ Supplied(history[1]) # Supplied(history[2])
    /\ history[3].op = "find"
    /\ history[3].task_id = history[1].task_id
    /\ history[3].result.type = "dict"

\* C2: add_task_metadata with a task_id that is present returns the
\* "already exists" error and leaves the index unchanged: same task_ids, and
\* every stored record keeps its deadline, urgency and description.
C2_DuplicateRejected ==
    [][\A t \in TaskIds :
          (IsCall("add", t) /\ Contains(task_metadata, t)) =>
              /\ IsStr(Last(history').result, ExistsMsg(t))
              /\ IndexUnchanged]_vars

\* a duplicate add was made with metadata differing from the stored one
C2_Witness ==
    /\ Len(history) >= 2
    /\ Last(history).op = "add"
    /\ IsStr(Last(history).result, ExistsMsg(Last(history).task_id))
    /\ Supplied(Last(history)) # Stored(Last(history).task_id)

\* no add call on task_id among h[i+1..j-1]
NoAddBetween(h, task_id, i, j) ==
    \A k \in (i + 1)..(j - 1) : ~(h[k].op = "add" /\ h[k].task_id = task_id)

\* h[i] is a complete call that deleted its task_id
Completed(h, i) ==
    /\ h[i].op = "complete"
    /\ IsStr(h[i].result, DeletedMsg(h[i].task_id))

C4_CompleteTwice ==
    [][\A t \in TaskIds :
          IsCall("complete", t) =>
              /\ Contains(task_metadata, t) =>
                    /\ IsStr(Last(history').result, DeletedMsg(t))
                    /\ ~Contains(task_metadata', t)
              /\ (/\ Len(history) >= 1
                  /\ Completed(history, Len(history))
                  /\ Last(history).task_id = t) =>
                    /\ IsStr(Last(history').result, NotFoundMsg(t))
                    /\ task_metadata' = task_metadata
                    /\ objs' = objs
                    /\ held' = held]_vars

\* a stored task_id was completed twice in a row
C4_Witness ==
    /\ Len(history) >= 3
    /\ Completed(history, Len(history) - 1)
    /\ Last(history).op = "complete"
    /\ Last(history).task_id = history[Len(history) - 1].task_id
    /\ IsStr(Last(history).result, NotFoundMsg(Last(history).task_id))

\* task_ids with a record in the index
Pending == DOMAIN task_metadata

\* position in h of the add call that stored task_id's current record
SubmittedAt(h, task_id) ==
    CHOOSE i \in 1..Len(h) :
        /\ h[i].op = "add" /\ h[i].task_id = task_id
        /\ IsStr(h[i].result, AddedMsg(task_id))
        /\ \A k \in (i + 1)..Len(h) :
              ~(h[k].op = "add" /\ h[k].task_id = task_id
                /\ IsStr(h[k].result, AddedMsg(task_id)))

\* t goes before u: lower urgency, then lower deadline, then earlier submission
Precedes(t, u) ==
    \/ Stored(t).urgency < Stored(u).urgency
    \/ /\ Stored(t).urgency = Stored(u).urgency
       /\ Stored(t).deadline < Stored(u).deadline
    \/ /\ Stored(t).urgency = Stored(u).urgency
       /\ Stored(t).deadline = Stored(u).deadline
       /\ SubmittedAt(history, t) < SubmittedAt(history, u)

HighestPriority == CHOOSE t \in Pending : \A u \in Pending \ {t} : Precedes(t, u)

\* C5: with tasks pending, next() and dispatch() return the record of the
\* pending task with the lowest urgency (ties: lowest deadline, then earliest
\* submission), and dispatch() removes it.
C5_DispatchHighestPriority ==
    [][(/\ Len(history') = Len(history) + 1
        /\ Last(history').op \in {"dispatch", "next"}
        /\ Pending # {}) =>
          /\ Last(history').result.type = "dict"
          /\ Last(history').result.value = Stored(HighestPriority)
          /\ Last(history').op = "dispatch" =>
                ~Contains(task_metadata', HighestPriority)]_vars

\* C6: a task_id has a record in the index if and only if exactly one
\* Priority Entry with that task_id exists in the Priority Structure.
C6_IndexMatchesPriorityStructure ==
    \A t \in TaskIds :
        Contains(task_metadata, t) <=>
            Cardinality({i \in DOMAIN min_heap : min_heap[i].task_id = t}) = 1

\* C10: the metadata stored for a task_id changes only in a scheduler call;
\* what the caller does with a value find_task_metadata returned changes no
\* stored deadline, urgency or description.
C10_ReturnedRecordImmutable ==
    [][history' = history =>
          \A t \in (DOMAIN task_metadata) \cap (DOMAIN task_metadata') :
              Stored(t)' = Stored(t)]_vars

-----------------------------------------------------------------------------
(* Properties of the concurrent callers (SpecConc) *)

\* every thread made exactly one call, an add, and has returned from it
OneAddEach ==
    \A th \in Threads :
        /\ pc[th] \in {"idle", "joined"}
        /\ ncalls[th] = 1
        /\ cur[th].op = "add"

DistinctIds == \A th, o \in Threads : th # o => cur[th].task_id # cur[o].task_id

\* the orders in which the threads' tasks can be dispatched
Orders == {p \in [1..NumThreads -> Threads] : \A k, l \in 1..NumThreads : k # l => p[k] # p[l]}

\* thread th's task does not go after thread o's task
NotAfter(th, o) ==
    \/ cur[th].urgency < cur[o].urgency
    \/ cur[th].urgency = cur[o].urgency /\ cur[th].deadline <= cur[o].deadline

\* C7: after concurrent add calls with pairwise distinct task_ids every
\* record is in the index, and as many sequential dispatch calls then return
\* each task once, in priority order.
C7_ConcurrentSubmitsThenDispatch ==
    (OneAddEach /\ DistinctIds /\ Joined) =>
        /\ dispatched = << >> =>
              \A th \in Threads :
                  /\ Contains(task_metadata, cur[th].task_id)
                  /\ Stored(cur[th].task_id) = Supplied(cur[th])
        /\ Len(dispatched) = NumThreads =>
              \E p \in Orders :
                  /\ \A k \in 1..NumThreads :
                        /\ dispatched[k].type = "dict"
                        /\ dispatched[k].value = Supplied(cur[p[k]])
                  /\ \A k, l \in 1..NumThreads : k < l => NotAfter(p[k], p[l])

\* C8: when every thread's only call is an add of the same task_id, made on
\* a scheduler without it, exactly one call returns success, the others
\* return the "already exists" error, and the stored record is the one the
\* successful call supplied.
C8_OneConcurrentSubmitWins ==
    \A t \in TaskIds :
        (OneAddEach /\ \A th \in Threads : cur[th].task_id = t) =>
            \E w \in Threads :
                /\ ret[w] = AddedMsg(t)
                /\ \A o \in Threads \ {w} : ret[o] = ExistsMsg(t)
                /\ Contains(task_metadata, t)
                /\ Stored(t) = Supplied(cur[w])

\* C9: no call of any thread ends in an exception.
C9_NoUnhandledFault ==
    \A th \in Threads : ret[th].type # "raise" /\ pc[th] # "raised"

-----------------------------------------------------------------------------
(* Further properties of the sequential caller (Spec) *)

\* C11 as stated: once complete_task_metadata has deleted a task_id, no later
\* call makes that task_id present in the index again.
C11_CompletedIsTerminal ==
    \A i \in 1..Len(history) :
        Completed(history, i) => ~Contains(task_metadata, history[i].task_id)

\* C11 as amended: once complete_task_metadata has deleted a task_id, it stays
\* absent from the index through every call that is not an add of that
\* task_id; an add_task_metadata of it succeeds and stores the metadata newly
\* supplied.
C11_CompletedUntilResubmitted ==
    \A i \in 1..Len(history) :
        Completed(history, i) =>
            LET t == history[i].task_id
            IN /\ NoAddBetween(history, t, i, Len(history) + 1) =>
                      ~Contains(task_metadata, t)
               /\ \A j \in (i + 1)..Len(history) :
                      (/\ history[j].op = "add"
                       /\ history[j].task_id = t
                       /\ NoAddBetween(history, t, i, j)) =>
                          IsStr(history[j].result, AddedMsg(t))
               /\ (/\ Len(history) > i
                   /\ Last(history).op = "add"
                   /\ Last(history).task_id = t
                   /\ NoAddBetween(history, t, i, Len(history))) =>
                      /\ Contains(task_metadata, t)
                      /\ Stored(t) = Supplied(Last(history))

\* a task_id was completed and then added again with other metadata
C11_Witness ==
    /\ Len(history) = 3
    /\ history[1].op = "add"
    /\ Completed(history, 2)
    /\ history[2].task_id = history[1].task_id
    /\ history[3].op = "add"
    /\ history[3].task_id = history[1].task_id
    /\ Supplied(history[3]) # Supplied(history[1])

\* C12: find_task_metadata changes nothing stored: for a present and for an
\* absent task_id the index holds the same task_ids, the same dict objects
\* and the same deadline, urgency and description after the call as before.
C12_FindReadOnly ==
    [][\A t \in TaskIds :
          IsCall("find", t) =>
              /\ task_metadata' = task_metadata
              /\ IndexUnchanged]_vars

\* with a task stored, a present and an absent task_id were inspected
C12_Witness ==
    /\ DOMAIN task_metadata # {}
    /\ \E i, j \in 1..Len(history) :
          /\ history[i].op = "find" /\ history[i].result.type = "dict"
          /\ history[j].op = "find"
          /\ IsStr(history[j].result, NotFoundMsg(history[j].task_id))

\* C13: add_task_metadata fails exactly when the task_id is present: with
\* the task_id absent it returns success and stores the supplied values,
\* whatever the deadline, urgency (negative ones included) and description.
C13_OnlyDuplicateRejected ==
    [][\A t \in TaskIds :
          IsCall("add", t) =>
              /\ Contains(task_metadata, t) <=>
                    IsStr(Last(history').result, ExistsMsg(t))
              /\ ~Contains(task_metadata, t) =>
                    /\ IsStr(Last(history').result, AddedMsg(t))
                    /\ Contains(task_metadata', t)
                    /\ Stored(t)' = Supplied(Last(history'))]_vars

\* an add with negative deadline and urgency and empty description succeeded
C13_Witness ==
    /\ Len(history) >= 1
    /\ Last(history).op = "add"
    /\ Last(history).deadline < 0
    /\ Last(history).urgency < 0
    /\ Last(history).description = ""
    /\ IsStr(Last(history).result, AddedMsg(Last(history).task_id))

\* C14: with no task pending, next() and dispatch() return the absent value
\* (None), raise nothing and change nothing.
C14_EmptyDispatchReturnsNone ==
    [][(/\ Len(history') = Len(history) + 1
        /\ Last(history').op \in {"dispatch", "next"}
        /\ Pending = {}) =>
          /\ Last(history').result.type = "none"
          /\ task_metadata' = task_metadata
          /\ objs' = objs]_vars

\* this step is an add or complete call on task_id that succeeded
IsSuccessfulMutation(task_id) ==
    \/ /\ IsCall("add", task_id)
       /\ IsStr(Last(history').result, AddedMsg(task_id))
    \/ /\ IsCall("complete", task_id)
       /\ IsStr(Last(history').result, DeletedMsg(task_id))

\* C15: a successful add_task_metadata(T, ...) or complete_task_metadata(T)
\* changes only T's entry: every other task_id is present after the call
\* exactly if it was before, with the same stored record.
C15_OtherEntriesUntouched ==
    [][\A t \in TaskIds :
          IsSuccessfulMutation(t) =>
              \A u \in TaskIds \ {t} :
                  /\ Contains(task_metadata', u) <=> Contains(task_metadata, u)
                  /\ Contains(task_metadata, u) =>
                        /\ task_metadata'[u] = task_metadata[u]
                        /\ Stored(u)' = Stored(u)]_vars

\* a task was added and another completed while some other task was stored
C15_Witness ==
    /\ Len(history) = 3
    /\ history[1].op = "add"
    /\ history[2].op = "add"
    /\ history[2].task_id # history[1].task_id
    /\ Completed(history, 3)
    /\ DOMAIN task_metadata # {}

\* the first k calls of h left task_id active: its most recent successful
\* add or complete among them was an add
ActiveAfter(h, k, task_id) ==
    \E i \in 1..k :
        /\ h[i].op = "add" /\ h[i].task_id = task_id
        /\ IsStr(h[i].result, AddedMsg(task_id))
        /\ \A j \in (i + 1)..k :
              ~(/\ h[j].op = "complete" /\ h[j].task_id = task_id
                /\ IsStr(h[j].result, DeletedMsg(task_id)))

\* h holds add and complete calls only
OnlyAddComplete(h) == \A i \in 1..Len(h) : h[i].op \in {"add", "complete"}

\* C16: after any sequence of add and complete calls, the task_ids in the
\* index are exactly those whose most recent successful add or complete was
\* an add; an add returned the "already exists" error exactly if its task_id
\* was in that set when called (else success), and a complete returned the
\* "not found" error exactly if its task_id was not (else success).
C16_IndexIsActiveSet ==
    OnlyAddComplete(history) =>
        /\ \A t \in TaskIds :
              Contains(task_metadata, t) <=> ActiveAfter(history, Len(history), t)
        /\ \A k \in 1..Len(history) :
              LET c == history[k]
                  active == ActiveAfter(history, k - 1, c.task_id)
              IN /\ c.op = "add" =>
                        /\ IsStr(c.result, ExistsMsg(c.task_id)) <=> active
                        /\ IsStr(c.result, AddedMsg(c.task_id)) <=> ~active
                 /\ c.op = "complete" =>
                        /\ IsStr(c.result, NotFoundMsg(c.task_id)) <=> ~active
                        /\ IsStr(c.result, DeletedMsg(c.task_id)) <=> active

\* both errors occurred: a duplicate add and a complete of an absent task_id
C16_Witness ==
    /\ OnlyAddComplete(history)
    /\ \E i, j \in 1..Len(history) :
          /\ history[i].op = "add"
          /\ IsStr(history[i].result, ExistsMsg(history[i].task_id))
          /\ history[j].op = "complete"
          /\ IsStr(history[j].result, NotFoundMsg(history[j].task_id))

====
